---- MODULE Spec2Model ----
(***************************************************************************)
(* Model of samcli/lib/utils/subprocess_utils.py:                          *)
(* invoke_subprocess_with_loading_pattern, its helpers, the child process  *)
(* it launches and the pipes between them.                                 *)
(*                                                                         *)
(* Text is a sequence of tokens.  "{" and "}" are the brace characters,    *)
(* " " and "\n" are whitespace, "bad" is a byte that is not valid UTF-8,   *)
(* every other token is a run of ordinary characters.                      *)
(***************************************************************************)
EXTENDS Integers, Sequences, FiniteSets, TLC

\* Number of chunks (lines) an OS pipe buffers before a writer blocks.
PipeCap == 1
\* Dots the sink distinguishes; further dots leave the modelled sink as is.
MaxDots == 2
\* Polls and callback invocations that are counted; the counters stay at
\* this value once they reach it.
MaxPolls == 3
\* Longest value given to the decoding helper on its own.
MaxLen == 3

INFO == 20
DEBUG == 10
PIPE == "PIPE"
None == "None"
Absent == "<absent>"
linesep == "\n"

Whitespace == {" ", "\n"}

Ok(v) == [ok |-> TRUE, val |-> v, type |-> "none"]
Err(t, txt) == [ok |-> FALSE, val |-> txt, type |-> t]

NoExc == [type |-> "none", text |-> <<>>]
Exc(t, txt) == [type |-> t, text |-> txt]

----------------------------------------------------------------------------
\* Text helpers

RECURSIVE LStrip(_)
LStrip(s) ==
  IF s = <<>> THEN s
  ELSE IF Head(s) \in Whitespace THEN LStrip(Tail(s)) ELSE s

RECURSIVE RStrip(_)
RStrip(s) ==
  IF s = <<>> THEN s
  ELSE IF s[Len(s)] \in Whitespace THEN RStrip(SubSeq(s, 1, Len(s) - 1)) ELSE s

\* str.strip() with no argument: whitespace is removed at both ends.
strip(s) == RStrip(LStrip(s))

\* bytes.decode("utf-8"): fails on a byte sequence that is not UTF-8.
decode(b) ==
  IF \E i \in 1..Len(b) : b[i] = "bad"
  THEN Err("ValueError", <<"'utf-8' codec can't decode byte">>)
  ELSE Ok(b)

\* _check_and_process_bytes: bytes are decoded and stripped, text is returned
\* as it is.
check_and_process_bytes(v) ==
  IF v.kind = "bytes"
  THEN LET d == decode(v.data) IN IF d.ok THEN Ok(strip(d.val)) ELSE d
  ELSE Ok(v.data)

RECURSIVE Concat(_)
Concat(ss) == IF ss = <<>> THEN <<>> ELSE Head(ss) \o Concat(Tail(ss))

\* Index of the first line break of s at or after i, Len(s) + 1 if none.
RECURSIVE NextBreak(_, _)
NextBreak(s, i) ==
  IF i > Len(s) THEN Len(s) + 1
  ELSE IF s[i] = "\n" THEN i ELSE NextBreak(s, i + 1)

\* The lines of s, each with its line break (the last one may have none).
RECURSIVE SplitLines(_)
SplitLines(s) ==
  IF s = <<>> THEN <<>>
  ELSE LET j == NextBreak(s, 1)
           k == IF j > Len(s) THEN Len(s) ELSE j
       IN <<SubSeq(s, 1, k)>> \o SplitLines(SubSeq(s, k + 1, Len(s)))

Digits == <<"0", "1", "2", "3", "4", "5", "6", "7", "8", "9">>
\* str(n) of a small non-negative exit code, as the f-string renders it.
Str(n) == <<Digits[n + 1]>>

----------------------------------------------------------------------------
\* str.format(ex = ...) applied to an already interpolated message

\* Index of the first brace of s at or after i, Len(s) + 1 if none.
RECURSIVE NextBrace(_, _)
NextBrace(s, i) ==
  IF i > Len(s) THEN Len(s) + 1
  ELSE IF s[i] \in {"{", "}"} THEN i ELSE NextBrace(s, i + 1)

RECURSIVE FormatFrom(_, _, _)
FormatFrom(s, i, ex) ==
  IF i > Len(s) THEN Ok(<<>>)
  ELSE IF s[i] = "}" THEN
    IF i < Len(s) /\ s[i + 1] = "}"
    THEN LET r == FormatFrom(s, i + 2, ex)
         IN IF r.ok THEN Ok(<<"}">> \o r.val) ELSE r
    ELSE Err("ValueError", <<"Single '", "}", "' encountered in format string">>)
  ELSE IF s[i] = "{" THEN
    IF i = Len(s)
    THEN Err("ValueError", <<"Single '", "{", "' encountered in format string">>)
    ELSE IF s[i + 1] = "{"
    THEN LET r == FormatFrom(s, i + 2, ex)
         IN IF r.ok THEN Ok(<<"{">> \o r.val) ELSE r
    ELSE LET j == NextBrace(s, i + 1)
             name == SubSeq(s, i + 1, j - 1)
         IN IF j > Len(s)
            THEN Err("ValueError", <<"expected '", "}", "' before end of string">>)
            ELSE IF s[j] = "{"
            THEN Err("ValueError", <<"unexpected '", "{", "' in field name">>)
            ELSE IF name = <<"ex">>
            THEN LET r == FormatFrom(s, j + 1, ex)
                 IN IF r.ok THEN Ok(ex \o r.val) ELSE r
            ELSE IF name = <<>> \/ (Len(name) = 1 /\ \E d \in 1..10 : name[1] = Digits[d])
            THEN Err("IndexError", <<"Replacement index out of range for positional args tuple">>)
            ELSE Err("KeyError", name)
  ELSE LET r == FormatFrom(s, i + 1, ex)
       IN IF r.ok THEN Ok(<<s[i]>> \o r.val) ELSE r

\* LoadingPatternError(ex): the exception "raise LoadingPatternError(ex)"
\* ends up raising.  The f-string is interpolated first and .format(ex = ex)
\* is then applied to the result, so braces in ex are format markup.
LoadingPatternError(ex) ==
  LET r == FormatFrom(<<"Failed to execute the subprocess. ">> \o ex, 1, ex)
  IN IF r.ok THEN Exc("LoadingPatternError", r.val) ELSE Exc(r.type, r.val)

----------------------------------------------------------------------------
\* Input domains

\* repr() of the argument vector, with and without braces in an argument.
ArgVectors == { <<"['cmd']">>, <<"['c", "{", "k", "}", "']">> }

\* What the child writes to its standard output.
StdoutTexts ==
  { <<>>,
    <<" ", "a", " ", "\n">>,
    <<"a", "\n", "b", "\n", "c", "\n">>,
    <<"\n", "a">>,
    <<"bad", "\n">> }

\* What the child writes to its standard error.
StderrTexts ==
  { <<>>,
    <<" ", "e", " ", "\n">>,
    <<"{", "e", "}", "\n">>,
    <<"e", "\n", "f", "\n", "g", "\n">> }

ExitCodes == {0, 1, 2}

\* Values of the "stdout" entry of command_args: no entry, None, file
\* descriptor 0, PIPE, and an open file of the caller.
StdoutArgs == {Absent, None, "fd0", PIPE, "file"}
StderrArgs == {Absent, PIPE}
Levels == {DEBUG, INFO}

\* Exit status of a child killed by SIGPIPE.
SIGPIPE == 0 - 13

VARIABLES
  caller_args,     \* command_args as the caller built it
  command_args,    \* the dictionary object the call works on
  level,           \* LOG.getEffectiveLevel()
  stdoutText,      \* everything the child writes to stdout
  stderrText,      \* everything the child writes to stderr
  exitCode,        \* the code the child exits with
  childState,      \* "unborn", "running", "exited"
  childStatus,     \* exit status once exited
  childOut,        \* lines the child has still to write to stdout
  childErr,        \* lines the child has still to write to stderr
  outPipe,         \* chunks buffered in the stdout pipe
  errPipe,         \* chunks buffered in the stderr pipe
  pipesOpen,       \* the parent's pipe ends are open
  pc,              \* position of the caller's thread in the function
  process_output,
  process_stderr,
  return_code,
  returncode,      \* process.returncode: <<>> is None, <<n>> is n
  sink,            \* what stream_writer received
  flushed,         \* how much of sink has been flushed
  logged,          \* lines given to LOG.debug
  pending,         \* exception in flight
  outcome,         \* "pending", "returned", "raised"
  result,          \* returned value
  error,           \* exception the call raised
  released,        \* number of times Popen.__exit__ released the handle
  launches,        \* number of Popen calls
  launchStdout,    \* stdout destination given to Popen
  fault,           \* where a collaborator or the data raised, "none" if nowhere
  polls_running,   \* calls of process.poll() that returned None
  polls_exited,    \* calls of process.poll() that returned an exit code
  callbacks,       \* invocations of loading_pattern
  post_read,       \* process.stdout.read() was called after the wait
  check_value,     \* argument of a direct call of _check_and_process_bytes
  helper_out,      \* results of the direct calls, in order
  helper_pc        \* "off", "call", "applied", "reapplied"

vars == << caller_args, command_args, level, stdoutText, stderrText, exitCode,
           childState, childStatus, childOut, childErr, outPipe, errPipe,
           pipesOpen, pc, process_output, process_stderr, return_code,
           returncode, sink, flushed, logged, pending, outcome, result, error,
           released, launches, launchStdout, fault, polls_running,
           polls_exited, callbacks, post_read, check_value, helper_out,
           helper_pc >>

helperVars == << check_value, helper_out, helper_pc >>

countVars == << polls_running, polls_exited, callbacks >>
inputVars == << caller_args, level, stdoutText, stderrText, exitCode >>
childVars == << childState, childStatus, childOut, childErr >>
pipeVars == << outPipe, errPipe >>
sinkVars == << sink, flushed >>
endVars == << outcome, result, error >>

Init ==
  /\ caller_args \in [args : ArgVectors, stdout : StdoutArgs,
                      stderr : StderrArgs, text : BOOLEAN]
  /\ command_args = caller_args
  /\ level \in Levels
  /\ stdoutText \in StdoutTexts
  /\ stderrText \in StderrTexts
  /\ exitCode \in ExitCodes
  /\ childState = "unborn"
  /\ childStatus = 0
  /\ childOut = SplitLines(stdoutText)
  /\ childErr = SplitLines(stderrText)
  /\ outPipe = <<>>
  /\ errPipe = <<>>
  /\ pipesOpen = FALSE
  /\ pc = "start"
  /\ process_output = <<>>
  /\ process_stderr = <<>>
  /\ return_code = 0
  /\ returncode = <<>>
  /\ sink = <<>>
  /\ flushed = 0
  /\ logged = <<>>
  /\ pending = NoExc
  /\ outcome = "pending"
  /\ result = <<>>
  /\ error = NoExc
  /\ released = 0
  /\ launches = 0
  /\ launchStdout = Absent
  /\ fault = "none"
  /\ polls_running = 0
  /\ polls_exited = 0
  /\ callbacks = 0
  /\ post_read = FALSE
  /\ check_value = [kind |-> "str", data |-> <<>>]
  /\ helper_out = <<>>
  /\ helper_pc = "off"

----------------------------------------------------------------------------
\* The function body

\* dict.get(key): None when the key is missing.
get(d, k) == IF d[k] = Absent THEN None ELSE d[k]

\* Python truth value of a stdout destination: None and the integer 0 are
\* false, PIPE (-1) and objects are true.
Truthy(v) == v \notin {None, "fd0"}

\* A plausible slip: the destination is always replaced by the pipe.
DefaultStdout_always(d) == [d EXCEPT !.stdout = PIPE]

\* if not command_args.get("stdout"): command_args["stdout"] = PIPE
DefaultStdout(d) ==
  IF ~Truthy(get(d, "stdout")) THEN [d EXCEPT !.stdout = PIPE] ELSE d

\* process.stdout and process.stderr exist for PIPE destinations only.
HasStdout == launchStdout = PIPE
HasStderr == command_args.stderr = PIPE

\* A plausible slip: the streaming branch is taken at INFO too.
Branch_strict(lvl, has_stdout) ==
  IF lvl > INFO THEN "poll"
  ELSE IF has_stdout THEN "stream" ELSE "wait"

\* A plausible slip: the loop body runs before the first poll.
Branch_callback_first(lvl, has_stdout) ==
  IF lvl >= INFO THEN "callback"
  ELSE IF has_stdout THEN "stream" ELSE "wait"

\* if LOG.getEffectiveLevel() >= logging.INFO: ... elif process.stdout: ...
Branch(lvl, has_stdout) ==
  IF lvl >= INFO THEN "poll"
  ELSE IF has_stdout THEN "stream" ELSE "wait"

NonZeroMessage(d, code, err) ==
  <<"The process ">> \o d.args \o <<" returned a non-zero exit code ">>
    \o Str(code) \o <<". ">> \o err

FailedMessage(d, e) ==
  <<"Subprocess execution failed ">> \o d.args \o <<". ">> \o e.text

\* except (OSError, ValueError) as e: raise LoadingPatternError(...) from e
\* The result is the exception that leaves the function.
ExceptClause(d, e) ==
  IF e.type \in {"OSError", "ValueError"}
  THEN LoadingPatternError(FailedMessage(d, e))
  ELSE e

\* What a read of a pipe hands to the caller: bytes, or text when the pipe
\* was opened in text mode (the decoding then happens inside the read).
ReadValue(d, data) ==
  IF d.text
  THEN LET r == decode(data)
       IN IF r.ok THEN Ok([kind |-> "str", data |-> r.val]) ELSE r
  ELSE Ok([kind |-> "bytes", data |-> data])

\* _check_and_convert_stream_to_string(stream), stream.read() returning
\* everything left in the pipe.
check_and_convert_stream_to_string(d, present, buffered) ==
  IF present
  THEN LET v == ReadValue(d, Concat(buffered))
       IN IF v.ok THEN check_and_process_bytes(v.val) ELSE v
  ELSE Ok(<<>>)

\* A plausible slip: the handle is released on the normal path only.
ReleaseOnExit_normal_only(e) == e = NoExc

\* The with statement runs Popen.__exit__ however the block is left.
ReleaseOnExit(e) == TRUE

NumDots(s) == Cardinality({i \in 1..Len(s) : s[i] = "."})
NumSeps(s) == Cardinality({i \in 1..Len(s) : s[i] = linesep})

\* StreamWriter.write
write(s, text) == Append(s, text)

\* A plausible slip: the pattern ends its own line.
default_loading_pattern_newline(s) == write(s, linesep)

\* default_loading_pattern: stream_writer.write(".")
default_loading_pattern(s) ==
  IF NumDots(s) < MaxDots THEN write(s, ".") ELSE s

\* A plausible slip: no separator when no pattern was printed.
TerminateLine_unless_empty(s) == IF s = <<>> THEN s ELSE write(s, linesep)

\* stream_writer.write(os.linesep)
TerminateLine(s) == write(s, linesep)

\* One more poll or callback invocation is counted.
Bump(n) == IF n < MaxPolls THEN n + 1 ELSE n

\* A plausible slip: the leftover is read whatever was accumulated.
NeedsPostRead_always(out) == TRUE

\* if not process_output
NeedsPostRead(out) == out = <<>>

\* An exception raised inside the with block leaves it through __exit__.
Raise(e, where) ==
  /\ pending' = e
  /\ fault' = where
  /\ pc' = "exit_close"

\* Popen(**command_args) succeeds
Launch ==
  /\ pc = "start"
  /\ command_args' = DefaultStdout(command_args)
  /\ launchStdout' = DefaultStdout(command_args).stdout
  /\ launches' = launches + 1
  /\ childState' = "running"
  /\ pipesOpen' = TRUE
  /\ pc' = Branch(level, DefaultStdout(command_args).stdout = PIPE)
  /\ UNCHANGED << inputVars, helperVars, post_read, countVars, childStatus, childOut, childErr, pipeVars,
                  process_output, process_stderr, return_code, returncode,
                  sinkVars, logged, pending, endVars, released, fault >>

\* Popen(**command_args) raises OSError or ValueError
LaunchFails ==
  /\ pc = "start"
  /\ command_args' = DefaultStdout(command_args)
  /\ launchStdout' = DefaultStdout(command_args).stdout
  /\ launches' = launches + 1
  /\ \E e \in { Exc("OSError", <<"[Errno 2] No such file or directory: ">>
                                  \o command_args.args),
                Exc("ValueError", <<"embedded null byte">>) } :
        /\ pending' = e
        /\ error' = ExceptClause(DefaultStdout(command_args), e)
  /\ outcome' = "raised"
  /\ fault' = "launch"
  /\ pc' = "done"
  /\ UNCHANGED << inputVars, helperVars, post_read, countVars, childVars, pipeVars, pipesOpen, process_output,
                  process_stderr, return_code, returncode, sinkVars, logged,
                  result, released >>

\* while process.poll() is None
Poll ==
  /\ pc = "poll"
  /\ IF childState = "exited"
     THEN /\ returncode' = <<childStatus>>
          /\ polls_exited' = polls_exited + 1
          /\ pc' = "wait"
          /\ UNCHANGED polls_running
     ELSE /\ polls_running' = Bump(polls_running)
          /\ pc' = "callback"
          /\ UNCHANGED << returncode, polls_exited >>
  /\ UNCHANGED << inputVars, helperVars, post_read, callbacks, command_args, childVars, pipeVars, pipesOpen,
                  process_output, process_stderr, return_code, sinkVars,
                  logged, pending, endVars, released, launches, launchStdout,
                  fault >>

\* loading_pattern(stream_writer): the pattern is written and flushed, or
\* the callback raises.
Callback ==
  /\ pc = "callback"
  /\ callbacks' = Bump(callbacks)
  /\ \/ /\ sink' = default_loading_pattern(sink)
        /\ flushed' = Len(default_loading_pattern(sink))
        /\ pc' = "poll"
        /\ UNCHANGED << pending, fault >>
     \/ /\ \E e \in { Exc("OSError", <<"[Errno 32] Broken pipe">>),
                      Exc("RuntimeError", <<"callback failed">>) } :
             Raise(e, "callback")
        /\ UNCHANGED sinkVars
  /\ UNCHANGED << inputVars, helperVars, post_read, polls_running, polls_exited, command_args, childVars, pipeVars, pipesOpen,
                  process_output, process_stderr, return_code, returncode,
                  logged, endVars, released, launches, launchStdout >>

\* for line in process.stdout: one line is read, decoded, logged and added,
\* or the end of the stream is seen.
ReadLine ==
  /\ pc = "stream"
  /\ IF outPipe # <<>>
     THEN LET v == ReadValue(command_args, Head(outPipe))
              r == IF v.ok THEN check_and_process_bytes(v.val) ELSE v
          IN /\ outPipe' = Tail(outPipe)
             /\ IF r.ok
                THEN /\ logged' = Append(logged, r.val)
                     /\ process_output' = process_output \o r.val
                     /\ UNCHANGED << pc, pending, fault >>
                ELSE /\ Raise(Exc(r.type, r.val), "decode_line")
                     /\ UNCHANGED << logged, process_output >>
     ELSE /\ childState = "exited"
          /\ pc' = "wait"
          /\ UNCHANGED << outPipe, logged, process_output, pending, fault >>
  /\ UNCHANGED << inputVars, helperVars, post_read, countVars, command_args, childVars, errPipe, pipesOpen,
                  process_stderr, return_code, returncode, sinkVars, endVars,
                  released, launches, launchStdout >>

\* return_code = process.wait()
Wait ==
  /\ pc = "wait"
  /\ \/ /\ childState = "exited"
        /\ return_code' = childStatus
        /\ returncode' = <<childStatus>>
        /\ pc' = "linesep"
        /\ UNCHANGED << pending, fault >>
     \/ /\ Raise(Exc("OSError", <<"[Errno 10] No child processes">>), "wait")
        /\ UNCHANGED << return_code, returncode >>
  /\ UNCHANGED << inputVars, helperVars, post_read, countVars, command_args, childVars, pipeVars, pipesOpen,
                  process_output, process_stderr, sinkVars, logged, endVars,
                  released, launches, launchStdout >>

\* stream_writer.write(os.linesep); stream_writer.flush()
WriteLinesep ==
  /\ pc = "linesep"
  /\ \/ /\ sink' = TerminateLine(sink)
        /\ flushed' = Len(TerminateLine(sink))
        /\ pc' = "readout"
        /\ UNCHANGED << pending, fault >>
     \/ /\ Raise(Exc("OSError", <<"[Errno 32] Broken pipe">>), "sink")
        /\ UNCHANGED sinkVars
  /\ UNCHANGED << inputVars, helperVars, post_read, countVars, command_args, childVars, pipeVars, pipesOpen,
                  process_output, process_stderr, return_code, returncode,
                  logged, endVars, released, launches, launchStdout >>

\* if not process_output:
\*     process_output = _check_and_convert_stream_to_string(process.stdout)
ReadStdout ==
  /\ pc = "readout"
  /\ IF NeedsPostRead(process_output)
     THEN LET r == check_and_convert_stream_to_string(command_args, HasStdout,
                                                      outPipe)
          IN /\ outPipe' = <<>>
             /\ post_read' = HasStdout
             /\ IF r.ok
                THEN /\ process_output' = r.val
                     /\ pc' = "readerr"
                     /\ UNCHANGED << pending, fault >>
                ELSE /\ Raise(Exc(r.type, r.val), "decode_stdout")
                     /\ UNCHANGED process_output
     ELSE /\ pc' = "readerr"
          /\ UNCHANGED << outPipe, process_output, pending, fault,
                          post_read >>
  /\ UNCHANGED << inputVars, helperVars, countVars, command_args, childVars, errPipe, pipesOpen,
                  process_stderr, return_code, returncode, sinkVars, logged,
                  endVars, released, launches, launchStdout >>

\* process_stderr = _check_and_convert_stream_to_string(process.stderr)
ReadStderr ==
  /\ pc = "readerr"
  /\ LET r == check_and_convert_stream_to_string(command_args, HasStderr,
                                                 errPipe)
     IN /\ errPipe' = <<>>
        /\ IF r.ok
           THEN /\ process_stderr' = r.val
                /\ pc' = "check"
                /\ UNCHANGED << pending, fault >>
           ELSE /\ Raise(Exc(r.type, r.val), "decode_stderr")
                /\ UNCHANGED process_stderr
  /\ UNCHANGED << inputVars, helperVars, post_read, countVars, command_args, childVars, outPipe, pipesOpen,
                  process_output, return_code, returncode, sinkVars, logged,
                  endVars, released, launches, launchStdout >>

\* if return_code: raise LoadingPatternError(...); otherwise the with block
\* is left normally.
CheckReturnCode ==
  /\ pc = "check"
  /\ pending' = IF return_code # 0
                THEN LoadingPatternError(
                       NonZeroMessage(command_args, returncode[1],
                                      process_stderr))
                ELSE NoExc
  /\ pc' = "exit_close"
  /\ UNCHANGED << inputVars, helperVars, post_read, countVars, command_args, childVars, pipeVars, pipesOpen,
                  process_output, process_stderr, return_code, returncode,
                  sinkVars, logged, endVars, released, launches, launchStdout,
                  fault >>

\* Popen.__exit__, first half: the parent's pipe ends are closed.
PopenExitClose ==
  /\ pc = "exit_close"
  /\ pipesOpen' = FALSE
  /\ pc' = "exit_wait"
  /\ UNCHANGED << inputVars, helperVars, post_read, countVars, command_args, childVars, pipeVars,
                  process_output, process_stderr, return_code, returncode,
                  sinkVars, logged, pending, endVars, released, launches,
                  launchStdout, fault >>

\* Popen.__exit__, second half: the child is waited on; then the except
\* clause or the return statement ends the call.
PopenExitWait ==
  /\ pc = "exit_wait"
  /\ childState = "exited"
  /\ returncode' = <<childStatus>>
  /\ released' = IF ReleaseOnExit(pending) THEN released + 1 ELSE released
  /\ IF pending = NoExc
     THEN /\ outcome' = "returned"
          /\ result' = process_output
          /\ UNCHANGED error
     ELSE /\ outcome' = "raised"
          /\ error' = ExceptClause(command_args, pending)
          /\ UNCHANGED result
  /\ pc' = "done"
  /\ UNCHANGED << inputVars, helperVars, post_read, countVars, command_args, childVars, pipeVars, pipesOpen,
                  process_output, process_stderr, return_code, sinkVars,
                  logged, pending, launches, launchStdout, fault >>

----------------------------------------------------------------------------
\* The child process

\* The child writes its next line to standard output.  A write to a full
\* pipe blocks; a write to a pipe whose reader is gone kills the child.
ChildWriteStdout ==
  /\ childState = "running"
  /\ childOut # <<>>
  /\ IF HasStdout
     THEN IF pipesOpen
          THEN /\ Len(outPipe) < PipeCap
               /\ outPipe' = Append(outPipe, Head(childOut))
               /\ childOut' = Tail(childOut)
               /\ UNCHANGED << childState, childStatus >>
          ELSE /\ childState' = "exited"
               /\ childStatus' = SIGPIPE
               /\ UNCHANGED << outPipe, childOut >>
     ELSE /\ childOut' = Tail(childOut)
          /\ UNCHANGED << outPipe, childState, childStatus >>
  /\ UNCHANGED << inputVars, helperVars, post_read, countVars, command_args, childErr, errPipe, pipesOpen, pc,
                  process_output, process_stderr, return_code, returncode,
                  sinkVars, logged, pending, endVars, released, launches,
                  launchStdout, fault >>

\* The child writes its next line to standard error.
ChildWriteStderr ==
  /\ childState = "running"
  /\ childErr # <<>>
  /\ IF HasStderr
     THEN IF pipesOpen
          THEN /\ Len(errPipe) < PipeCap
               /\ errPipe' = Append(errPipe, Head(childErr))
               /\ childErr' = Tail(childErr)
               /\ UNCHANGED << childState, childStatus >>
          ELSE /\ childState' = "exited"
               /\ childStatus' = SIGPIPE
               /\ UNCHANGED << errPipe, childErr >>
     ELSE /\ childErr' = Tail(childErr)
          /\ UNCHANGED << errPipe, childState, childStatus >>
  /\ UNCHANGED << inputVars, helperVars, post_read, countVars, command_args, childOut, outPipe, pipesOpen, pc,
                  process_output, process_stderr, return_code, returncode,
                  sinkVars, logged, pending, endVars, released, launches,
                  launchStdout, fault >>

\* The child has written everything and exits.
ChildExit ==
  /\ childState = "running"
  /\ childOut = <<>>
  /\ childErr = <<>>
  /\ childState' = "exited"
  /\ childStatus' = exitCode
  /\ UNCHANGED << inputVars, helperVars, post_read, countVars, command_args, childOut, childErr, pipeVars,
                  pipesOpen, pc, process_output, process_stderr, return_code,
                  returncode, sinkVars, logged, pending, endVars, released,
                  launches, launchStdout, fault >>

RunnerStep ==
  \/ Launch
  \/ LaunchFails
  \/ Poll
  \/ Callback
  \/ ReadLine
  \/ Wait
  \/ WriteLinesep
  \/ ReadStdout
  \/ ReadStderr
  \/ CheckReturnCode
  \/ PopenExitClose
  \/ PopenExitWait

ChildStep ==
  \/ ChildWriteStdout
  \/ ChildWriteStderr
  \/ ChildExit

Next == RunnerStep \/ ChildStep

Spec == Init /\ [][Next]_vars

\* The caller's thread and the child are both scheduled by the OS.
FairSpec == Spec /\ WF_vars(RunnerStep) /\ WF_vars(ChildStep)

----------------------------------------------------------------------------
\* The decoding helper called on its own

HelperChars == {"a", " ", "\n", "bad"}

\* Token sequences of length at most n.
RECURSIVE SeqsUpTo(_)
SeqsUpTo(n) ==
  IF n = 0 THEN { <<>> }
  ELSE SeqsUpTo(n - 1)
         \cup { Append(q, c) : q \in { r \in SeqsUpTo(n - 1) : Len(r) = n - 1 },
                               c \in HelperChars }

\* No call of invoke_subprocess_with_loading_pattern is under way.
NoCall ==
  /\ caller_args = [args |-> <<"['cmd']">>, stdout |-> Absent,
                    stderr |-> Absent, text |-> FALSE]
  /\ command_args = caller_args
  /\ level = INFO
  /\ stdoutText = <<>> /\ stderrText = <<>> /\ exitCode = 0
  /\ childState = "unborn" /\ childStatus = 0
  /\ childOut = <<>> /\ childErr = <<>>
  /\ outPipe = <<>> /\ errPipe = <<>> /\ pipesOpen = FALSE
  /\ pc = "idle"
  /\ process_output = <<>> /\ process_stderr = <<>>
  /\ return_code = 0 /\ returncode = <<>>
  /\ sink = <<>> /\ flushed = 0 /\ logged = <<>>
  /\ pending = NoExc /\ outcome = "pending" /\ result = <<>>
  /\ error = NoExc /\ released = 0 /\ launches = 0
  /\ launchStdout = Absent /\ fault = "none"
  /\ polls_running = 0 /\ polls_exited = 0 /\ callbacks = 0
  /\ post_read = FALSE

HelperInit ==
  /\ NoCall
  /\ check_value \in [kind : {"bytes", "str"}, data : SeqsUpTo(MaxLen)]
  /\ helper_out = <<>>
  /\ helper_pc = "call"

mainVars == << inputVars, countVars, command_args, childVars, pipeVars,
              pipesOpen, pc, process_output, process_stderr, return_code,
              returncode, sinkVars, logged, pending, endVars, released,
              launches, launchStdout, fault, post_read >>

\* _check_and_process_bytes(check_value)
ApplyHelper ==
  /\ helper_pc = "call"
  /\ helper_out' = <<check_and_process_bytes(check_value)>>
  /\ helper_pc' = "applied"
  /\ UNCHANGED << mainVars, check_value >>

\* _check_and_process_bytes applied to the text it returned
ReapplyHelper ==
  /\ helper_pc = "applied"
  /\ helper_out[1].ok
  /\ helper_out' = Append(helper_out,
        check_and_process_bytes([kind |-> "str", data |-> helper_out[1].val]))
  /\ helper_pc' = "reapplied"
  /\ UNCHANGED << mainVars, check_value >>

HelperNext == ApplyHelper \/ ReapplyHelper

HelperSpec == HelperInit /\ [][HelperNext]_vars

----------------------------------------------------------------------------
\* Properties

Launched == childState # "unborn"
Done == pc = "done"
IndicatorMode == level >= INFO

\* sub occurs in s as a contiguous piece.
Contains(s, sub) ==
  \E i \in 0..(Len(s) - Len(sub)) : SubSeq(s, i + 1, i + Len(sub)) = sub

\* C1: when the child exits with code 0 after writing T to the default
\* stdout pipe, the value returned is T with its trailing whitespace removed
\* and nothing else changed, in indicator mode and in streaming mode.
C1_ReturnsTrailingTrimmed ==
  (Done /\ outcome = "returned" /\ caller_args.stdout = Absent /\ exitCode = 0)
    => result = RStrip(stdoutText)

\* C2: when the child exits with a non-zero code N (and no collaborator
\* raised before the exit code was examined) the call never returns a value:
\* it raises a LoadingPatternError whose message contains the argument
\* vector, N and the captured stderr text.
C2_NonZeroExitRaises ==
  (Done /\ Launched /\ exitCode # 0 /\ fault = "none")
    => /\ outcome = "raised"
       /\ error.type = "LoadingPatternError"
       /\ Contains(error.text, caller_args.args)
       /\ Contains(error.text, Str(exitCode))
       /\ (HasStderr => Contains(error.text, strip(stderrText)))

\* C3: in indicator mode the poll/callback loop always comes to an end: once
\* the loop is entered the call eventually returns or fails, however much the
\* child writes to its piped stdout (stderr is not a pipe here, so stdout is
\* the only pipe the child can fill).
C3_IndicatorTerminates == (pc = "poll" /\ ~HasStderr) ~> Done

\* C4: after a successful launch the handle is released exactly once before
\* the call ends (pipes closed, child waited on), on the normal path, on the
\* non-zero exit path and on every exception path; it is never released
\* twice, and never without a launch.
C4_ReleasedExactlyOnce ==
  /\ released <= 1
  /\ (released = 1 => Launched)
  /\ (Done /\ Launched)
       => (released = 1 /\ ~pipesOpen /\ childState = "exited"
           /\ returncode # <<>>)

\* The call ended with an exception raised inside the with block and the
\* handle was released.
C4_Witness ==
  /\ Done /\ Launched /\ released = 1
  /\ fault \in {"callback", "wait", "sink", "decode_line", "decode_stdout"}
  /\ outcome = "raised"

\* C5: when Popen raises OSError or ValueError the call raises a
\* LoadingPatternError whose message contains the argument vector and the
\* text of the system error; it does not return and the progress callback
\* has not run.
C5_LaunchFailureRaises ==
  (Done /\ fault = "launch")
    => /\ outcome = "raised"
       /\ error.type = "LoadingPatternError"
       /\ Contains(error.text, caller_args.args)
       /\ Contains(error.text, pending.text)
       /\ sink = <<>>

\* The sink holds n dots (n >= least) followed by one line separator.
DotsThenLinesep(s, least) ==
  /\ Len(s) >= least + 1
  /\ s[Len(s)] = linesep
  /\ \A i \in 1..(Len(s) - 1) : s[i] = "."

\* What the post-exit read makes of the child's whole stdout.
Captured ==
  IF command_args.text THEN stdoutText ELSE strip(stdoutText)

\* C6 as claimed: in indicator mode with the default callback, a child that
\* exits with code 0 leaves one or more dots followed by exactly one line
\* separator in the sink and the call returns the child's stdout text,
\* whenever the child exits relative to the first poll.
C6_OneOrMoreDots ==
  (Done /\ IndicatorMode /\ HasStdout /\ exitCode = 0 /\ outcome = "returned")
    => (DotsThenLinesep(sink, 1) /\ result = Captured)

\* C6 as amended: in indicator mode with the default callback, a child that
\* exits with code 0 leaves zero or more dots (none when the first poll
\* already sees the exit) followed by exactly one line separator in the sink,
\* and the call returns the captured stdout (decoded and stripped when the
\* pipe delivers bytes); it does return unless the callback, the wait, the
\* sink or the decoding raised.
C6_ZeroOrMoreDots ==
  (Done /\ IndicatorMode /\ Launched /\ exitCode = 0)
    => /\ fault = "none" => outcome = "returned"
       /\ outcome = "returned"
            => /\ DotsThenLinesep(sink, 0)
               /\ HasStdout => result = Captured

\* An indicator-mode call returned non-empty output after printing dots.
C6_Witness ==
  /\ Done /\ IndicatorMode /\ outcome = "returned" /\ exitCode = 0
  /\ NumDots(sink) >= 1 /\ result # <<>>

RECURSIVE ConcatTrimmed(_)
ConcatTrimmed(lines) ==
  IF lines = <<>> THEN <<>>
  ELSE strip(Head(lines)) \o ConcatTrimmed(Tail(lines))

\* C7: in streaming mode, for a child that prints lines L1..Ln to its piped
\* stdout and exits 0, the returned value is the concatenation in order of
\* the lines, each decoded and trimmed, whether the pipe delivers bytes or
\* text.
C7_StreamingConcat ==
  (Done /\ ~IndicatorMode /\ HasStdout /\ exitCode = 0 /\ outcome = "returned")
    => result = ConcatTrimmed(SplitLines(stdoutText))

\* C8: the stdout destination given to Popen is the pipe when the caller
\* gave none (no entry, or None), and is the caller's own destination,
\* whatever its value, whenever the caller gave one.
C8_StdoutPassedUnchanged ==
  launches > 0
    => launchStdout = (IF get(caller_args, "stdout") = None THEN PIPE
                       ELSE caller_args.stdout)

\* The runner is past line 93: the separator write and flush returned.
PastLinesep ==
  \/ pc \in {"readout", "readerr", "check"}
  \/ /\ pc \in {"exit_close", "exit_wait", "done"}
     /\ Launched
     /\ fault \in {"none", "decode_stdout", "decode_stderr"}

\* C9: in every call where launch and wait succeed (and the sink accepts the
\* write), in either mode and for every exit code, exactly one line separator
\* is written and flushed; it is written only after the child has
\* terminated and after every write of the callback, and nothing is written
\* to the sink after it.
C9_OneLinesepLast ==
  /\ PastLinesep
       => /\ NumSeps(sink) = 1
          /\ sink[Len(sink)] = linesep
          /\ flushed = Len(sink)
          /\ childState = "exited"
  /\ ~PastLinesep => NumSeps(sink) = 0

\* A streaming-mode call of a child that exits non-zero has written its
\* separator and ended.
C9_Witness ==
  /\ Done /\ ~IndicatorMode /\ exitCode # 0 /\ fault = "none"
  /\ sink = <<linesep>>

\* The wait of line 90 returned an exit code.
WaitSucceeded == pc = "linesep" \/ PastLinesep \/ (Launched /\ fault = "sink")

\* C10: every completed call either returns the captured output or raises
\* LoadingPatternError; it returns exactly when the launch succeeded, the
\* wait succeeded and the exit code is 0; nothing is returned on a non-zero
\* exit code; Popen is called once.
C10_TwoOutcomes ==
  /\ launches <= 1
  /\ Done
       => /\ \/ outcome = "returned"
             \/ outcome = "raised" /\ error.type = "LoadingPatternError"
          /\ outcome = "returned"
               <=> (Launched /\ WaitSucceeded /\ exitCode = 0)
          /\ (Launched /\ exitCode # 0) => outcome # "returned"

\* C11: in streaming mode the line-reading loop always comes to an end: once
\* the loop is entered the end of the stream is reached, the wait completes
\* and the call returns or fails, however much the child writes to stdout
\* and to stderr, also when stderr is a pipe.
C11_StreamingTerminates == (pc = "stream") ~> Done

\* The callback has run once for every poll that found the child running;
\* between such a poll and its callback the poll count is one ahead.
CallbackPerRunningPoll ==
  /\ polls_exited <= 1
  /\ IF pc = "callback"
     THEN \/ polls_running = callbacks + 1
          \/ polls_running = MaxPolls /\ callbacks = MaxPolls
     ELSE callbacks = polls_running
  /\ polls_exited = 1 => pc \notin {"poll", "callback"}

\* C12: in indicator mode the callback is invoked exactly once after each
\* poll that reports the child still running, so the invocations equal those
\* polls in number (at least one when the first poll finds the child
\* running); once a poll has reported the exit there is no further poll and
\* no further callback.
C12_CallbackPerPoll ==
  /\ []CallbackPerRunningPoll
  /\ [][polls_exited >= 1 => UNCHANGED countVars]_vars

\* An indicator-mode call ended after polls that found the child running
\* and one poll that found it exited.
C12_Witness ==
  /\ Done /\ IndicatorMode /\ polls_exited = 1
  /\ polls_running >= 2 /\ callbacks = polls_running

\* C13: the mode follows from the level for the whole call.  In indicator
\* mode the runner is never in the line-reading loop, logs no line, and while
\* the child runs has read nothing from its stdout (all the child wrote is
\* still in the pipe).  In streaming mode the runner never polls and never
\* invokes the callback, so the sink holds nothing but the line separator.
C13_ModesExclusive ==
  /\ IndicatorMode
       => /\ pc # "stream"
          /\ logged = <<>>
          /\ (childState = "running" /\ HasStdout)
               => /\ process_output = <<>>
                  /\ Concat(outPipe) \o Concat(childOut) = stdoutText
  /\ ~IndicatorMode
       => /\ pc \notin {"poll", "callback"}
          /\ callbacks = 0 /\ polls_running = 0 /\ polls_exited = 0
          /\ sink \in {<<>>, <<linesep>>}

\* In indicator mode the pattern has been printed while output of the
\* running child waits unread in the pipe.
C13_Witness ==
  /\ IndicatorMode /\ pc = "callback" /\ childState = "running"
  /\ outPipe # <<>> /\ NumDots(sink) >= 1

\* The same characters handed over as the other type.
Twin(v) == [kind |-> IF v.kind = "bytes" THEN "str" ELSE "bytes",
            data |-> v.data]

\* C14: for every value, bytes or text, the helper returns the text with its
\* trailing whitespace removed and nothing else changed; bytes and the text
\* they decode to give the same result; applied to its own result the helper
\* changes nothing.
C14_HelperUniform ==
  (helper_pc \in {"applied", "reapplied"} /\ decode(check_value.data).ok)
    => /\ helper_out[1] = Ok(RStrip(check_value.data))
       /\ helper_out[1] = check_and_process_bytes(Twin(check_value))
       /\ helper_pc = "reapplied" => helper_out[2] = helper_out[1]

\* The runner is past line 96.
PastReadout == PastLinesep /\ pc # "readout"

\* C15: process.stdout is read after the wait exactly when streaming
\* accumulated nothing and a stdout pipe exists.  Without a stdout pipe a
\* successful call returns the empty string in both modes, and in streaming
\* mode the runner never enters the line loop.  When streaming accumulated
\* something, exactly that is returned.
C15_PostExitRead ==
  /\ ~PastReadout => ~post_read
  /\ PastReadout => (post_read <=> (Concat(logged) = <<>> /\ HasStdout))
  /\ (Done /\ outcome = "returned" /\ ~HasStdout) => result = <<>>
  /\ (~IndicatorMode /\ Launched /\ ~HasStdout)
       => (pc # "stream" /\ logged = <<>>)
  /\ (Done /\ outcome = "returned" /\ Concat(logged) # <<>>)
       => result = Concat(logged)

\* A streaming call returned what it accumulated, without a read after the
\* wait.
C15_Witness ==
  /\ Done /\ outcome = "returned" /\ ~IndicatorMode
  /\ result # <<>> /\ result = Concat(logged) /\ ~post_read

\* C16: on success the returned value is the same in both modes: for a child
\* with piped stdout that exits 0, a streaming-mode call returns what an
\* indicator-mode call returns, the captured whole of the child's stdout.
C16_SameInBothModes ==
  (Done /\ outcome = "returned" /\ HasStdout /\ exitCode = 0)
    => result = Captured

\* C17 as claimed: when the call has returned or failed, command_args is as
\* the caller passed it: every key has its value and no key was added.
C17_ArgsUnchanged == Done => command_args = caller_args

\* C17 as amended: the call changes the caller's command_args in one way
\* only: a stdout entry that is missing, None or 0 is set to PIPE before the
\* launch.  The other entries keep their values, no other key is added, and
\* a dictionary with another stdout entry is left as it was.
C17_OnlyStdoutDefaulted ==
  /\ command_args.args = caller_args.args
  /\ command_args.stderr = caller_args.stderr
  /\ command_args.text = caller_args.text
  /\ command_args.stdout =
       (IF pc # "start" /\ caller_args.stdout \in {Absent, None, "fd0"}
        THEN PIPE ELSE caller_args.stdout)

\* A call returned and left the caller's dictionary with a stdout key the
\* caller had not put there.
C17_Witness ==
  /\ Done /\ caller_args.stdout = Absent /\ command_args.stdout = PIPE
  /\ outcome = "returned"

====
